---- MODULE Spec2Model ----
(***************************************************************************)
(* Model of beach::Chroot (src/src/chroot.rs): a builder that accumulates  *)
(* the options of a chroot(1) invocation and materialises them as a        *)
(* std::process::Command.                                                  *)
(*                                                                         *)
(* An OsString is modelled as a TLA+ string, a Command as the sequence     *)
(* <<program name, arg1, arg2, ...>>.                                      *)
(***************************************************************************)
EXTENDS Integers, Sequences, FiniteSets, TLC

VARIABLES
    cfg,    \* the Chroot value at the head of the builder chain
    hist,   \* the setter calls made on it so far, in order (history)
    invs    \* the Commands produced so far; each records, next to its args,
            \* the inputs that produced it: root, program, the appended
            \* arguments (extra), the builder it was made from (from) and the
            \* calls made on that builder (calls)

vars == <<cfg, hist, invs>>

-----------------------------------------------------------------------------
(* Bounds of the model *)

\* longest builder chain in the specification Spec
MaxCalls == 3
\* most arguments appended to one produced Command
MaxExtra == 1
\* longest builder chain in the specification SpecReuse
MaxCallsReuse == 2
\* most Commands produced from one builder in the specification SpecReuse
MaxInv == 2

(* Inputs *)

Users == {"alice", "nvzqz"}
PrimaryGroups == {"everyone"}
GroupLists ==
    { <<>>, <<"wheel">>, <<"wheel", "docker">>, <<"a", "a">>, <<"a", "b", "c">> }
Roots == {"/path/to/root", "/"}
Programs == {"ls", "chroot"}
ExtraArgs == {"/", "--skip-chdir", "--userspec=root", "--groups=x"}

-----------------------------------------------------------------------------
(* Option<OsString> *)

None == [some |-> FALSE, val |-> ""]
Some(s) == [some |-> TRUE, val |-> s]

(* Chroot::new *)
new == [skip_chdir |-> FALSE, user_spec |-> None, groups |-> None]

(* Chroot::skip_chdir *)
\* faulty variant: flips the field instead of setting it
skip_chdir_toggle(self) == [self EXCEPT !.skip_chdir = ~@]
skip_chdir(self) == [self EXCEPT !.skip_chdir = TRUE]

(* Chroot::user *)
\* faulty variant: keeps a user specification that is already set
user_keep_first(self, u) ==
    IF self.user_spec.some THEN self
    ELSE [self EXCEPT !.user_spec = Some("--userspec=" \o u)]
user(self, u) ==
    [self EXCEPT !.user_spec = Some("--userspec=" \o u)]

(* Chroot::user_group *)
user_group(self, u, g) ==
    [self EXCEPT !.user_spec = Some((("--userspec=" \o u) \o ":") \o g)]

HasSuffix(s, t) == Len(s) >= Len(t) /\ SubSeq(s, Len(s) - Len(t) + 1, Len(s)) = t

(* The loop of Chroot::groups over the groups after the first: each is      *)
(* pushed onto arg behind a comma.                                          *)
\* faulty variant: skips a group equal to the one pushed last
RECURSIVE push_rest_dedup(_, _)
push_rest_dedup(arg, rest) ==
    IF rest = <<>> THEN arg
    ELSE IF HasSuffix(arg, Head(rest)) THEN push_rest_dedup(arg, Tail(rest))
    ELSE push_rest_dedup((arg \o ",") \o Head(rest), Tail(rest))

RECURSIVE push_rest(_, _)
push_rest(arg, rest) ==
    IF rest = <<>> THEN arg
    ELSE push_rest((arg \o ",") \o Head(rest), Tail(rest))

(* Chroot::groups *)
\* faulty variant: an empty sequence clears the list
groups_empty_clears(self, gs) ==
    IF gs # <<>>
    THEN [self EXCEPT !.groups = Some(push_rest("--groups=" \o Head(gs), Tail(gs)))]
    ELSE [self EXCEPT !.groups = None]
\* faulty variant: an empty sequence sets an empty --groups= flag
groups_empty_flag(self, gs) ==
    IF gs # <<>>
    THEN [self EXCEPT !.groups = Some(push_rest("--groups=" \o Head(gs), Tail(gs)))]
    ELSE [self EXCEPT !.groups = Some("--groups=")]
\* faulty variant: a later call appends to the list already set
groups_accumulate(self, gs) ==
    IF gs = <<>> THEN self
    ELSE IF self.groups.some
    THEN [self EXCEPT !.groups = Some(push_rest(@.val, gs))]
    ELSE [self EXCEPT !.groups = Some(push_rest("--groups=" \o Head(gs), Tail(gs)))]
\* `groups.next()` is Some exactly when the sequence is non-empty
groups(self, gs) ==
    IF gs # <<>>
    THEN [self EXCEPT !.groups = Some(push_rest("--groups=" \o Head(gs), Tail(gs)))]
    ELSE self

(* Chroot::command_impl *)
\* faulty variant: --groups before --userspec
command_impl_call_order(self, root, program) ==
    <<"chroot">>
        \o (IF self.skip_chdir THEN <<"--skip-chdir">> ELSE <<>>)
        \o (IF self.groups.some THEN <<self.groups.val>> ELSE <<>>)
        \o (IF self.user_spec.some THEN <<self.user_spec.val>> ELSE <<>>)
        \o <<root>>
        \o <<program>>
\* faulty variant: program before root
command_impl_program_first(self, root, program) ==
    <<"chroot">>
        \o (IF self.skip_chdir THEN <<"--skip-chdir">> ELSE <<>>)
        \o (IF self.user_spec.some THEN <<self.user_spec.val>> ELSE <<>>)
        \o (IF self.groups.some THEN <<self.groups.val>> ELSE <<>>)
        \o <<program>>
        \o <<root>>
\* faulty variant: an unset option is passed as an empty argument
command_impl_unset_empty(self, root, program) ==
    <<"chroot">>
        \o (IF self.skip_chdir THEN <<"--skip-chdir">> ELSE <<>>)
        \o <<self.user_spec.val>>
        \o <<self.groups.val>>
        \o <<root>>
        \o <<program>>
command_impl(self, root, program) ==
    <<"chroot">>
        \o (IF self.skip_chdir THEN <<"--skip-chdir">> ELSE <<>>)
        \o (IF self.user_spec.some THEN <<self.user_spec.val>> ELSE <<>>)
        \o (IF self.groups.some THEN <<self.groups.val>> ELSE <<>>)
        \o <<root>>
        \o <<program>>

(* Chroot::command: root.as_ref().as_os_str() and program.as_ref() hand the *)
(* same text to command_impl.                                               *)
command(self, root, program) == command_impl(self, root, program)

-----------------------------------------------------------------------------
(* The calls recorded in hist *)

SkipCall == [op |-> "skip_chdir", user |-> "", group |-> "", groups |-> <<>>]
UserCall(u) == [op |-> "user", user |-> u, group |-> "", groups |-> <<>>]
UserGroupCall(u, g) == [op |-> "user_group", user |-> u, group |-> g, groups |-> <<>>]
GroupsCall(gs) == [op |-> "groups", user |-> "", group |-> "", groups |-> gs]

-----------------------------------------------------------------------------
(* Steps *)

Init ==
    /\ cfg = new
    /\ hist = <<>>
    /\ invs = <<>>

SkipChdir ==
    /\ cfg' = skip_chdir(cfg)
    /\ hist' = Append(hist, SkipCall)
    /\ UNCHANGED invs

User(u) ==
    /\ cfg' = user(cfg, u)
    /\ hist' = Append(hist, UserCall(u))
    /\ UNCHANGED invs

UserGroup(u, g) ==
    /\ cfg' = user_group(cfg, u, g)
    /\ hist' = Append(hist, UserGroupCall(u, g))
    /\ UNCHANGED invs

Groups(gs) ==
    /\ cfg' = groups(cfg, gs)
    /\ hist' = Append(hist, GroupsCall(gs))
    /\ UNCHANGED invs

(* chroot.command(root, program): borrows the builder (&self), returns a   *)
(* Command                                                                  *)
\* faulty variant: takes the options out of the builder
CommandTaking(root, program) ==
    /\ invs' = Append(invs, [args |-> command(cfg, root, program),
                             root |-> root, program |-> program,
                             extra |-> <<>>, from |-> cfg, calls |-> hist])
    /\ cfg' = new
    /\ UNCHANGED hist
Command(root, program) ==
    /\ invs' = Append(invs, [args |-> command(cfg, root, program),
                             root |-> root, program |-> program,
                             extra |-> <<>>, from |-> cfg, calls |-> hist])
    /\ UNCHANGED <<cfg, hist>>

(* command.arg(a) on the i-th produced Command *)
Arg(i, a) ==
    /\ invs' = [invs EXCEPT ![i].args = Append(@, a), ![i].extra = Append(@, a)]
    /\ UNCHANGED <<cfg, hist>>

-----------------------------------------------------------------------------
(* Spec: the documented lifecycle. A chain of setters, then one command(),  *)
(* then arguments appended to the Command.                                  *)

CanChain == Len(hist) < MaxCalls /\ invs = <<>>

ChainSkipChdir == CanChain /\ SkipChdir
ChainUser == CanChain /\ \E u \in Users : User(u)
ChainUserGroup == CanChain /\ \E u \in Users, g \in PrimaryGroups : UserGroup(u, g)
ChainGroups == CanChain /\ \E gs \in GroupLists : Groups(gs)
Build == invs = <<>> /\ \E r \in Roots, p \in Programs : Command(r, p)
AppendArg ==
    \E i \in 1..Len(invs) :
        /\ Len(invs[i].extra) < MaxExtra
        /\ \E a \in ExtraArgs : Arg(i, a)

Next ==
    \/ ChainSkipChdir
    \/ ChainUser
    \/ ChainUserGroup
    \/ ChainGroups
    \/ Build
    \/ AppendArg

Spec == Init /\ [][Next]_vars

-----------------------------------------------------------------------------
(* SpecReuse: command() only borrows the builder, so one builder can        *)
(* produce several Commands, between and after more setter calls.           *)

CanSet == Len(hist) < MaxCallsReuse

ReuseSkipChdir == CanSet /\ SkipChdir
ReuseUser == CanSet /\ \E u \in Users : User(u)
ReuseUserGroup == CanSet /\ \E u \in Users, g \in PrimaryGroups : UserGroup(u, g)
ReuseGroups == CanSet /\ \E gs \in GroupLists : Groups(gs)
ReuseBuild == Len(invs) < MaxInv /\ Command("/path/to/root", "ls")
ReuseAppendArg ==
    \E i \in 1..Len(invs) :
        /\ Len(invs[i].extra) < MaxExtra
        /\ Arg(i, "/")

NextReuse ==
    \/ ReuseSkipChdir
    \/ ReuseUser
    \/ ReuseUserGroup
    \/ ReuseGroups
    \/ ReuseBuild
    \/ ReuseAppendArg

SpecReuse == Init /\ [][NextReuse]_vars

-----------------------------------------------------------------------------
(* Vocabulary of the properties: what a call history says the invocation    *)
(* must be, written without the builder's operators.                        *)

HasPrefix(s, p) == Len(s) >= Len(p) /\ SubSeq(s, 1, Len(p)) = p

IsSkipFlag(s) == s = "--skip-chdir"
IsUserFlag(s) == HasPrefix(s, "--userspec=")
IsGroupsFlag(s) == HasPrefix(s, "--groups=")

Count(seq, P(_)) == Cardinality({k \in DOMAIN seq : P(seq[k])})
Max(S) == CHOOSE x \in S : \A y \in S : y <= x
Min(S) == CHOOSE x \in S : \A y \in S : x <= y

SkipCalls(h) == {k \in DOMAIN h : h[k].op = "skip_chdir"}
UserCalls(h) == {k \in DOMAIN h : h[k].op \in {"user", "user_group"}}
\* the groups calls that were given a non-empty sequence
GroupsCalls(h) == {k \in DOMAIN h : h[k].op = "groups" /\ h[k].groups # <<>>}
EmptyGroupsCalls(h) == {k \in DOMAIN h : h[k].op = "groups" /\ h[k].groups = <<>>}

\* "<user>" or "<user>:<group>"
UserSpecOf(c) == IF c.op = "user" THEN c.user ELSE (c.user \o ":") \o c.group

\* g1,g2,...,gn of a non-empty sequence
RECURSIVE JoinComma(_)
JoinComma(gs) ==
    IF Len(gs) = 1 THEN gs[1]
    ELSE (JoinComma(SubSeq(gs, 1, Len(gs) - 1)) \o ",") \o gs[Len(gs)]

\* the non-empty sequences given to groups, one after the other
RECURSIVE AllGroups(_)
AllGroups(h) ==
    IF h = <<>> THEN <<>>
    ELSE IF Head(h).op = "groups" THEN Head(h).groups \o AllGroups(Tail(h))
    ELSE AllGroups(Tail(h))

ExpectedArgs(h, root, program, extra) ==
    <<"chroot">>
        \o (IF SkipCalls(h) # {} THEN <<"--skip-chdir">> ELSE <<>>)
        \o (IF UserCalls(h) # {}
            THEN <<"--userspec=" \o UserSpecOf(h[Max(UserCalls(h))])>> ELSE <<>>)
        \o (IF GroupsCalls(h) # {}
            THEN <<"--groups=" \o JoinComma(h[Max(GroupsCalls(h))].groups)>> ELSE <<>>)
        \o <<root, program>>
        \o extra

\* the arguments of a Command that precede its root: chroot's own options
FlagArgs(inv) == SubSeq(inv.args, 2, Len(inv.args) - Len(inv.extra) - 2)
\* the arguments the caller supplied: root, program, appended arguments
Positional(inv) == <<inv.root, inv.program>> \o inv.extra

\* the builder a call history leads to
ApplyCall(self, c) ==
    CASE c.op = "skip_chdir" -> skip_chdir(self)
      [] c.op = "user" -> user(self, c.user)
      [] c.op = "user_group" -> user_group(self, c.user, c.group)
      [] c.op = "groups" -> groups(self, c.groups)

RECURSIVE ApplyFrom(_, _)
ApplyFrom(self, h) ==
    IF h = <<>> THEN self ELSE ApplyFrom(ApplyCall(self, Head(h)), Tail(h))

ApplyAll(h) == ApplyFrom(new, h)

IsEmptyGroupsCall(c) == c.op = "groups" /\ c.groups = <<>>
StripEmpty(h) == SelectSeq(h, LAMBDA c : ~IsEmptyGroupsCall(c))

\* h with every skip_chdir call but the first removed
OnceSkip(h) ==
    LET first == Min(SkipCalls(h))
        keep == {k \in DOMAIN h : h[k].op # "skip_chdir" \/ k = first}
        F[k \in 0..Len(h)] ==
            IF k = 0 THEN <<>>
            ELSE IF k \in keep THEN Append(F[k - 1], h[k]) ELSE F[k - 1]
    IN  F[Len(h)]

NumSet(self) ==
    (IF self.skip_chdir THEN 1 ELSE 0)
        + (IF self.user_spec.some THEN 1 ELSE 0)
        + (IF self.groups.some THEN 1 ELSE 0)

-----------------------------------------------------------------------------
(* C1: the produced invocation is exactly "chroot", then --skip-chdir if    *)
(* set, then --userspec=<user spec> if set, then --groups=<comma-joined     *)
(* list> if set, then the root, the program and the extra arguments in the  *)
(* order supplied; with no option set it is <<"chroot", root, program>>,    *)
(* and the documented end-to-end example yields the documented list.        *)
C1_ExactInvocation ==
    \A i \in DOMAIN invs :
        LET inv == invs[i] IN
        /\ inv.args = ExpectedArgs(inv.calls, inv.root, inv.program, inv.extra)
        /\ (inv.from = new /\ inv.extra = <<>>
                => inv.args = <<"chroot", inv.root, inv.program>>)
        /\ ( /\ inv.calls = << SkipCall, UserGroupCall("nvzqz", "everyone"),
                               GroupsCall(<<"wheel", "docker">>) >>
             /\ inv.root = "/path/to/root"
             /\ inv.program = "ls"
             /\ inv.extra = <<"/">>
             => inv.args = << "chroot", "--skip-chdir", "--userspec=nvzqz:everyone",
                              "--groups=wheel,docker", "/path/to/root", "ls", "/" >> )

C1_Witness ==
    \E i \in DOMAIN invs :
        /\ invs[i].calls = << SkipCall, UserGroupCall("nvzqz", "everyone"),
                              GroupsCall(<<"wheel", "docker">>) >>
        /\ invs[i].root = "/path/to/root"
        /\ invs[i].program = "ls"
        /\ invs[i].extra = <<"/">>

(* C2: whatever the order of the three calls skip_chdir(), user(u) or       *)
(* user_group(u, grp), and groups(g) with g non-empty, the invocation is    *)
(* the same: --skip-chdir, --userspec=..., --groups=..., root, program,     *)
(* extra arguments.                                                         *)
PermCase(h) ==
    /\ Len(h) = 3
    /\ Cardinality(SkipCalls(h)) = 1
    /\ Cardinality(UserCalls(h)) = 1
    /\ Cardinality(GroupsCalls(h)) = 1

C2_OrderIndependent ==
    \A i \in DOMAIN invs :
        LET inv == invs[i]
            h == inv.calls
        IN  PermCase(h) =>
                LET u == CHOOSE k \in DOMAIN h : k \in UserCalls(h)
                    g == CHOOSE k \in DOMAIN h : k \in GroupsCalls(h)
                IN  inv.args =
                        << "chroot", "--skip-chdir",
                           "--userspec=" \o UserSpecOf(h[u]),
                           "--groups=" \o JoinComma(h[g].groups),
                           inv.root, inv.program >> \o inv.extra

C2_Witness ==
    \E i \in DOMAIN invs :
        /\ PermCase(invs[i].calls)
        /\ invs[i].calls[1].op = "groups"
        /\ invs[i].calls[2].op = "user"
        /\ invs[i].calls[3].op = "skip_chdir"
        /\ invs[i].extra # <<>>

(* C3: the user specification is last-write-wins across user and            *)
(* user_group: once either was called, the invocation has exactly one       *)
(* --userspec= argument, and it is "--userspec=<user>" if the last such     *)
(* call was user, "--userspec=<user>:<group>" if it was user_group.         *)
C3_UserSpecLastWriteWins ==
    \A i \in DOMAIN invs :
        LET inv == invs[i]
            h == inv.calls
        IN  UserCalls(h) # {} =>
                LET last == h[Max(UserCalls(h))] IN
                /\ Count(FlagArgs(inv), IsUserFlag) = 1
                /\ Count(inv.args, IsUserFlag) = 1 + Count(Positional(inv), IsUserFlag)
                /\ \E k \in DOMAIN FlagArgs(inv) :
                        FlagArgs(inv)[k] = "--userspec=" \o UserSpecOf(last)
                /\ (last.op = "user" => inv.from.user_spec.val = "--userspec=" \o last.user)
                /\ (last.op = "user_group" =>
                        inv.from.user_spec.val =
                            (("--userspec=" \o last.user) \o ":") \o last.group)

C3_Witness ==
    \E i \in DOMAIN invs :
        LET h == invs[i].calls IN
        /\ Cardinality(UserCalls(h)) = 3
        /\ h[1].op = "user_group"
        /\ h[2].op = "user"
        /\ h[3].op = "user_group"
        /\ h[3].user # h[2].user

(* C4: groups with an empty sequence is a no-op: it changes no field of the *)
(* builder, so it neither introduces a --groups flag nor clears one, and a  *)
(* chain produces the invocation it produces with its groups([]) calls left *)
(* out.                                                                     *)
C4_EmptyGroupsNoOp ==
    /\ [][hist' = Append(hist, GroupsCall(<<>>)) => cfg' = cfg]_vars
    /\ [](/\ cfg = ApplyAll(StripEmpty(hist))
          /\ \A i \in DOMAIN invs :
                /\ invs[i].from = ApplyAll(StripEmpty(invs[i].calls))
                /\ invs[i].args =
                      command(ApplyAll(StripEmpty(invs[i].calls)),
                              invs[i].root, invs[i].program) \o invs[i].extra
                /\ (GroupsCalls(invs[i].calls) = {}
                        => Count(FlagArgs(invs[i]), IsGroupsFlag) = 0)
                /\ (GroupsCalls(invs[i].calls) # {}
                        => Count(FlagArgs(invs[i]), IsGroupsFlag) = 1))

C4_Witness ==
    \E i \in DOMAIN invs :
        LET h == invs[i].calls IN
        /\ Len(h) = 3
        /\ IsEmptyGroupsCall(h[1])
        /\ h[2] = GroupsCall(<<"wheel">>)
        /\ IsEmptyGroupsCall(h[3])
        /\ invs[i].args = <<"chroot", "--groups=wheel", invs[i].root, invs[i].program>>

(* C5: groups(<<g1, ..., gn>>) with n >= 1 sets the flag to "--groups="     *)
(* followed by g1,g2,...,gn in input order, single commas between, none     *)
(* leading or trailing, nothing sorted or deduplicated.                     *)
C5_GroupsJoined ==
    /\ [][\A gs \in GroupLists :
            gs # <<>> /\ hist' = Append(hist, GroupsCall(gs)) =>
                /\ cfg'.groups = Some("--groups=" \o JoinComma(gs))
                /\ (gs = <<"a", "b", "c">> => cfg'.groups.val = "--groups=a,b,c")
                /\ (gs = <<"a", "a">> => cfg'.groups.val = "--groups=a,a")
                /\ (gs = <<"wheel", "docker">> => cfg'.groups.val = "--groups=wheel,docker")
                /\ (Len(gs) = 1 => cfg'.groups.val = "--groups=" \o gs[1])]_vars
    /\ [](\A i \in DOMAIN invs :
            LET h == invs[i].calls IN
            Cardinality(GroupsCalls(h)) = 1 =>
                \E k \in DOMAIN FlagArgs(invs[i]) :
                    FlagArgs(invs[i])[k] =
                        "--groups=" \o JoinComma(h[Max(GroupsCalls(h))].groups))

C5_Witness ==
    \E i \in DOMAIN invs :
        /\ invs[i].calls = <<GroupsCall(<<"a", "a">>)>>
        /\ invs[i].args = <<"chroot", "--groups=a,a", invs[i].root, invs[i].program>>

(* C6: skip_chdir is idempotent: called once or more, anywhere in the       *)
(* chain, it leaves the builder that a single call leaves, and the          *)
(* invocation has exactly one --skip-chdir option, directly after "chroot"  *)
(* and before every other option, the root and the program.                 *)
C6_SkipChdirIdempotent ==
    \A i \in DOMAIN invs :
        LET inv == invs[i]
            h == inv.calls
        IN  SkipCalls(h) # {} =>
                /\ inv.from = ApplyAll(OnceSkip(h))
                /\ inv.args[2] = "--skip-chdir"
                /\ Count(FlagArgs(inv), IsSkipFlag) = 1
                /\ Count(inv.args, IsSkipFlag) = 1 + Count(Positional(inv), IsSkipFlag)

C6_Witness ==
    \E i \in DOMAIN invs :
        LET h == invs[i].calls IN
        /\ Len(h) = 3
        /\ h[1].op = "skip_chdir"
        /\ h[2].op = "user"
        /\ h[3].op = "skip_chdir"
        /\ invs[i].extra = <<"--skip-chdir">>

(* C7, as claimed: supplementary groups accumulate: after groups(A) and     *)
(* then groups(B), both non-empty, the --groups value holds A's groups      *)
(* followed by B's, whereas after user(a) and then user(b) only b is in     *)
(* --userspec.                                                              *)
C7_GroupsAccumulate ==
    \A i \in DOMAIN invs :
        LET inv == invs[i]
            h == inv.calls
        IN  /\ (Cardinality(GroupsCalls(h)) >= 2 =>
                    \E k \in DOMAIN FlagArgs(inv) :
                        FlagArgs(inv)[k] = "--groups=" \o JoinComma(AllGroups(h)))
            /\ (Cardinality(UserCalls(h)) >= 2 =>
                    inv.from.user_spec.val =
                        "--userspec=" \o UserSpecOf(h[Max(UserCalls(h))]))

(* C7, amended: supplementary groups are overwritten like the user          *)
(* specification: after groups(A) and then groups(B), both non-empty, the   *)
(* --groups value is B's groups alone, and after user(a) and then user(b)   *)
(* only b is in --userspec. Only an empty sequence leaves the earlier list  *)
(* in place.                                                                *)
C7_GroupsOverwrite ==
    \A i \in DOMAIN invs :
        LET inv == invs[i]
            h == inv.calls
        IN  /\ (Cardinality(GroupsCalls(h)) >= 2 =>
                    /\ Count(FlagArgs(inv), IsGroupsFlag) = 1
                    /\ \E k \in DOMAIN FlagArgs(inv) :
                        FlagArgs(inv)[k] =
                            "--groups=" \o JoinComma(h[Max(GroupsCalls(h))].groups))
            /\ (Cardinality(UserCalls(h)) >= 2 =>
                    inv.from.user_spec.val =
                        "--userspec=" \o UserSpecOf(h[Max(UserCalls(h))]))

C7_Witness ==
    \E i \in DOMAIN invs :
        /\ invs[i].calls = <<GroupsCall(<<"wheel", "docker">>), GroupsCall(<<"a", "a">>)>>
        /\ invs[i].args = <<"chroot", "--groups=a,a", invs[i].root, invs[i].program>>

(* C9: the invocation has --skip-chdir iff skip_chdir was called, a         *)
(* --userspec= option iff user or user_group was called, a --groups=        *)
(* option iff groups was called with a non-empty sequence; and no builder   *)
(* call removes an option an earlier call set.                              *)
C9_FlagPresence ==
    /\ [](/\ (cfg.skip_chdir <=> SkipCalls(hist) # {})
          /\ (cfg.user_spec.some <=> UserCalls(hist) # {})
          /\ (cfg.groups.some <=> GroupsCalls(hist) # {})
          /\ \A i \in DOMAIN invs :
                LET inv == invs[i] IN
                /\ (Count(FlagArgs(inv), IsSkipFlag) > 0 <=> SkipCalls(inv.calls) # {})
                /\ (Count(FlagArgs(inv), IsUserFlag) > 0 <=> UserCalls(inv.calls) # {})
                /\ (Count(FlagArgs(inv), IsGroupsFlag) > 0 <=> GroupsCalls(inv.calls) # {}))
    /\ [][/\ (cfg.skip_chdir => cfg'.skip_chdir)
          /\ (cfg.user_spec.some => cfg'.user_spec.some)
          /\ (cfg.groups.some => cfg'.groups.some)]_vars

C9_Witness ==
    \E i \in DOMAIN invs :
        LET inv == invs[i] IN
        /\ inv.calls = <<GroupsCall(<<"wheel">>), GroupsCall(<<>>), SkipCall>>
        /\ Count(FlagArgs(inv), IsSkipFlag) = 1
        /\ Count(FlagArgs(inv), IsUserFlag) = 0
        /\ Count(FlagArgs(inv), IsGroupsFlag) = 1

(* C10: among the arguments preceding the root there is at most one         *)
(* --skip-chdir, at most one --userspec=... and at most one --groups=...;   *)
(* the invocation has, after "chroot", exactly 2 + (options set) + (extra   *)
(* arguments) arguments; the root comes directly after the options and the  *)
(* program directly after the root.                                         *)
C10_Shape ==
    \A i \in DOMAIN invs :
        LET inv == invs[i]
            n == NumSet(inv.from)
            before == SubSeq(inv.args, 2, n + 1)
        IN  /\ Len(inv.args) - 1 = 2 + n + Len(inv.extra)
            /\ Count(before, IsSkipFlag) <= 1
            /\ Count(before, IsUserFlag) <= 1
            /\ Count(before, IsGroupsFlag) <= 1
            /\ inv.args[n + 2] = inv.root
            /\ inv.args[n + 3] = inv.program
            /\ SubSeq(inv.args, n + 4, Len(inv.args)) = inv.extra

C10_Witness ==
    \E i \in DOMAIN invs :
        /\ NumSet(invs[i].from) = 2
        /\ ~invs[i].from.skip_chdir
        /\ invs[i].extra = <<"--skip-chdir">>
        /\ Len(invs[i].args) = 6

(* C8: building leaves the builder as it was: command changes none of       *)
(* skip_chdir, user_spec and groups; two Commands built from equal builders *)
(* with the same root, program and extra arguments are equal; appending to  *)
(* one Command, or calling setters afterwards, changes no other Command     *)
(* already produced.                                                        *)
C8_BuildIsPure ==
    /\ [][/\ (Len(invs') > Len(invs) => cfg' = cfg)
          /\ (hist' # hist => invs' = invs)
          /\ \A i \in DOMAIN invs :
                /\ i \in DOMAIN invs'
                /\ SubSeq(invs'[i].args, 1, Len(invs[i].args)) = invs[i].args
          /\ Cardinality({i \in DOMAIN invs : invs'[i].args # invs[i].args}) <= 1]_vars
    /\ [](\A i, j \in DOMAIN invs :
            /\ invs[i].from = invs[j].from
            /\ invs[i].root = invs[j].root
            /\ invs[i].program = invs[j].program
            /\ invs[i].extra = invs[j].extra
            => invs[i].args = invs[j].args)

C8_Witness ==
    /\ Len(invs) = 2
    /\ invs[1].from = invs[2].from
    /\ invs[1].from # new
    /\ cfg # invs[1].from
    /\ Len(hist) > Len(invs[2].calls)
    /\ invs[1].extra = <<"/">>
    /\ invs[2].extra = <<>>
    /\ invs[2].args = SubSeq(invs[1].args, 1, Len(invs[2].args))

====
